---- MODULE Spec2Model ----
(***************************************************************************)
(* AgroAnalytics: the data cleaning pipeline (ml_service.py), the          *)
(* ingestion of cleaned records into the AgriculturalData table            *)
(* (data_service.py) and the per-farmer insight, tip and report            *)
(* generation (ml_service.py, chatbot_service.py).                         *)
(*                                                                         *)
(* Numbers are integers.  Raw numeric inputs are drawn from even integers, *)
(* so that the median of an even number of them is an integer; quantiles   *)
(* are carried multiplied by 4 and the IQR bounds multiplied by 8, which   *)
(* keeps pandas' linear interpolation exact.                               *)
(***************************************************************************)
EXTENDS Integers, Sequences, FiniteSets, TLC

VARIABLES
    raw_data,      \* clean_agricultural_data: the batch passed in
    normalized,    \* the frame after _handle_missing_values, _standardize_columns
    filtered,      \* the frame after _remove_outliers
    cleaned,       \* the list of records returned
    user,          \* the farmer profile (a User row) an operation is called with
    tips,          \* _generate_productivity_tips: the list returned
    store,         \* the AgriculturalData table: its committed rows, in insertion order
    now,           \* the clock: the number of ingestion calls made
    last_call,     \* the last ingestion call: its operation, source, records and outcome
    result,        \* the value the last insight, report or context call returned
    pc,            \* the operation last applied ("start", "idle" before any)
    accounts,      \* the User table: the row of user id i at position i
    checkouts,     \* Stripe's checkout sessions, the session of id i at position i
    reports,       \* the Report table: its committed rows, in insertion order
    requests       \* the requests in flight: what each has read and not yet committed

vars == <<raw_data, normalized, filtered, cleaned, user, tips, store, now, last_call,
          result, pc, accounts, checkouts, reports, requests>>

\* the variables of each component
cleanVars == <<raw_data, normalized, filtered, cleaned>>
tipVars == <<user, tips>>
storeVars == <<store, now, last_call>>
webVars == <<accounts, checkouts, reports, requests>>

\* db.create_all() on a new database, no session at Stripe, no request in flight
NoWeb ==
    /\ accounts = <<>>
    /\ checkouts = <<>>
    /\ reports = <<>>
    /\ requests = <<>>

(***************************************************************************)
(* Bounds                                                                  *)
(***************************************************************************)
\* records in one batch passed to clean_agricultural_data
MaxRows == 4
\* records in one batch passed to _save_agricultural_data
MaxBatch == 2
\* ingestion calls in one behaviour
MaxTime == 2
\* the most records ingested into the table the county analysis reads
MaxCountyRows == 4
\* records in one batch passed to predict_crop_yield
MaxYieldRows == 11

(***************************************************************************)
(* Generic helpers                                                         *)
(***************************************************************************)
Range(s) == {s[i] : i \in 1..Len(s)}

Min(a, b) == IF a <= b THEN a ELSE b

RECURSIVE Insert(_, _)
Insert(sorted, x) ==
    IF sorted = <<>> THEN <<x>>
    ELSE IF x <= Head(sorted) THEN <<x>> \o sorted
    ELSE <<Head(sorted)>> \o Insert(Tail(sorted), x)

RECURSIVE SortAsc(_)
SortAsc(s) == IF s = <<>> THEN <<>> ELSE Insert(SortAsc(Tail(s)), Head(s))

(***************************************************************************)
(* pandas values and frames                                                *)
(***************************************************************************)
\* numpy's NaN, the missing numeric value: every comparison with it is false
NaN == -999999

\* datetime.now().year
CurrentYear == 2026

\* the missing value of a column of texts (None or NaN in an object column)
MissingText == "nan"

\* select_dtypes(include=['object']): the fields of the batches drawn here
\* that hold texts; every other field holds numbers
TextFields ==
    {"county", "County", "COUNTY", "crop_name", "Crop", "CROP",
     "season", "Season", "SEASON"}

\* the missing value of column c
Missing(c) == IF c \in TextFields THEN MissingText ELSE NaN

\* the texts of the batches drawn here, in the order Python sorts them
SortedTexts == <<"Beans", "Kiambu", "Maize", "Nakuru">>

\* A frame: its column labels in order, and its rows, each a function from
\* the column labels to a value.
EmptyFrame == [columns |-> <<>>, rows |-> <<>>]

\* select_dtypes(include=[np.number]).columns and
\* select_dtypes(include=['object']).columns
NumericCols(df) == SelectSeq(df.columns, LAMBDA c : c \notin TextFields)
CategoricalCols(df) == SelectSeq(df.columns, LAMBDA c : c \in TextFields)

Column(df, col) == [i \in 1..Len(df.rows) |-> df.rows[i][col]]

NotNa(s) == SelectSeq(s, LAMBDA v : v # NaN)

\* pd.DataFrame(list of dicts): the columns are the keys in order of first
\* appearance, a key a record lacks is missing in its row.
RECURSIVE FrameColumns(_, _)
FrameColumns(records, keyOrder) ==
    IF records = <<>> THEN <<>>
    ELSE LET before == FrameColumns(SubSeq(records, 1, Len(records) - 1), keyOrder)
             last   == records[Len(records)]
         IN  before \o SelectSeq(keyOrder,
                         LAMBDA k : k \in DOMAIN last /\ k \notin Range(before))

DataFrame(records, keyOrder) ==
    LET cols == FrameColumns(records, keyOrder)
    IN  [columns |-> cols,
         rows    |-> [i \in 1..Len(records) |->
                        [c \in Range(cols) |->
                            IF c \in DOMAIN records[i] THEN records[i][c] ELSE Missing(c)]]]

\* Series.median(): NaN is skipped; NaN when nothing is left
Median(s) ==
    LET v == SortAsc(NotNa(s))
        n == Len(v)
    IN  IF n = 0 THEN NaN
        ELSE IF n % 2 = 1 THEN v[(n + 1) \div 2]
        ELSE (v[n \div 2] + v[n \div 2 + 1]) \div 2

\* 4 * Series.quantile(k/4) with linear interpolation at position (n-1)*k/4
\* of the sorted non-missing values; NaN when there are none
Quantile4(s, k) ==
    LET v  == SortAsc(NotNa(s))
        n  == Len(v)
        lo == (k * (n - 1)) \div 4
        fr == (k * (n - 1)) % 4
    IN  IF n = 0 THEN NaN
        ELSE (4 - fr) * v[lo + 1] + fr * v[Min(lo + 2, n)]

\* 8 * (Q1 - 1.5 * IQR) and 8 * (Q3 + 1.5 * IQR)
LowerBound8(s) == 5 * Quantile4(s, 1) - 3 * Quantile4(s, 3)
UpperBound8(s) == 5 * Quantile4(s, 3) - 3 * Quantile4(s, 1)

(***************************************************************************)
(* MLService: the cleaning pipeline                                        *)
(***************************************************************************)
\* Series.mode()[0]: the most frequent of the texts present, the first in
\* sort order when several are; MissingText when mode() is empty
Mode(s) ==
    LET present  == SelectSeq(s, LAMBDA v : v # MissingText)
        count(v) == Len(SelectSeq(present, LAMBDA w : w = v))
        modes    == SelectSeq(SortedTexts,
                        LAMBDA v : /\ count(v) > 0
                                   /\ \A k \in 1..Len(present) : count(present[k]) <= count(v))
    IN  IF modes = <<>> THEN MissingText ELSE modes[1]

\* as FillValue, with the first text present in place of the mode
FillWithFirstPresent(df, c) ==
    IF c \in TextFields
    THEN LET present == SelectSeq(Column(df, c), LAMBDA v : v # MissingText)
         IN  IF present = <<>> THEN MissingText ELSE present[1]
    ELSE Median(Column(df, c))

\* the value fillna puts in column c: the median of a numeric column (NaN
\* itself when the column holds nothing else), mode()[0] of a column of
\* texts (nothing is filled when mode() is empty)
FillValue(df, c) ==
    IF c \in TextFields THEN Mode(Column(df, c)) ELSE Median(Column(df, c))

\* as _handle_missing_values, with the rows holding a missing value dropped (dropna)
\* in place of filled
HandleMissingByDropping(df) ==
    [df EXCEPT !.rows =
        SelectSeq(df.rows, LAMBDA r : \A c \in Range(df.columns) : r[c] # Missing(c))]

\* _handle_missing_values: fillna on the numeric columns, then on the columns
\* of texts
_handle_missing_values(df) ==
    [df EXCEPT !.rows =
        [i \in 1..Len(df.rows) |->
            [c \in Range(df.columns) |->
                IF df.rows[i][c] = Missing(c) THEN FillValue(df, c) ELSE df.rows[i][c]]]]

\* the fixed table of _standardize_columns
column_mapping ==
    [County |-> "county", COUNTY |-> "county",
     Crop |-> "crop_name", CROP |-> "crop_name",
     Production |-> "production_tonnes", PRODUCTION |-> "production_tonnes",
     Area |-> "area_hectares", AREA |-> "area_hectares",
     Year |-> "year", YEAR |-> "year",
     Price |-> "price_kes", PRICE |-> "price_kes",
     Season |-> "season", SEASON |-> "season"]

\* as Renamed, with the keys in capitals forgotten
RenamedUnlessCapitals(c) ==
    IF c \in DOMAIN column_mapping \ {"COUNTY", "CROP", "PRODUCTION", "AREA", "YEAR", "PRICE", "SEASON"}
    THEN column_mapping[c] ELSE c

\* the label of column c after the loop of renames
Renamed(c) == IF c \in DOMAIN column_mapping THEN column_mapping[c] ELSE c

\* _standardize_columns: df.rename for every key of the table that is a column.
\* No new name is itself a key, so the renames do not chain.
_standardize_columns(df) ==
    LET cols == [j \in 1..Len(df.columns) |-> Renamed(df.columns[j])]
        old(c) == CHOOSE o \in Range(df.columns) : Renamed(o) = c
    IN  [columns |-> cols,
         rows    |-> [i \in 1..Len(df.rows) |->
                        [c \in Range(cols) |-> df.rows[i][old(c)]]]]

\* as FilterColumn, with the upper bound forgotten
FilterColumnLowerOnly(df, col) ==
    LET s     == Column(df, col)
        lower == LowerBound8(s)
    IN  IF Len(df.rows) = 0 THEN df
        ELSE IF NotNa(s) = <<>> THEN [df EXCEPT !.rows = <<>>]
        ELSE [df EXCEPT !.rows =
                SelectSeq(df.rows, LAMBDA r : r[col] # NaN /\ 8 * r[col] >= lower)]

\* one pass of the loop of _remove_outliers: the quantiles are those of the
\* column of the frame as the earlier passes left it
FilterColumn(df, col) ==
    LET s     == Column(df, col)
        lower == LowerBound8(s)
        upper == UpperBound8(s)
    IN  IF Len(df.rows) = 0 THEN df
        ELSE IF NotNa(s) = <<>> THEN [df EXCEPT !.rows = <<>>]
        ELSE [df EXCEPT !.rows =
                SelectSeq(df.rows,
                    LAMBDA r : r[col] # NaN /\ 8 * r[col] >= lower /\ 8 * r[col] <= upper)]

RECURSIVE RemoveOutliersFrom(_, _)
RemoveOutliersFrom(df, cols) ==
    IF cols = <<>> THEN df
    ELSE RemoveOutliersFrom(FilterColumn(df, Head(cols)), Tail(cols))

\* _remove_outliers: numeric_cols is read once, from the frame passed in
_remove_outliers(df) == RemoveOutliersFrom(df, NumericCols(df))

\* df[df[col] >= bound]: a NaN compares false and its row goes
KeepAtLeast(df, col, bound) ==
    IF col \in Range(df.columns)
    THEN [df EXCEPT !.rows = SelectSeq(df.rows, LAMBDA r : r[col] # NaN /\ r[col] >= bound)]
    ELSE df

\* as KeepYears, with the upper bound forgotten
KeepYearsFrom1960(df) ==
    IF "year" \in Range(df.columns)
    THEN [df EXCEPT !.rows =
            SelectSeq(df.rows, LAMBDA r : r["year"] # NaN /\ r["year"] >= 1960)]
    ELSE df

\* df[(df['year'] >= 1960) & (df['year'] <= current_year)]
KeepYears(df) ==
    IF "year" \in Range(df.columns)
    THEN [df EXCEPT !.rows =
            SelectSeq(df.rows,
                LAMBDA r : r["year"] # NaN /\ r["year"] >= 1960 /\ r["year"] <= CurrentYear)]
    ELSE df

\* _validate_data
_validate_data(df) ==
    KeepAtLeast(KeepAtLeast(KeepYears(df), "production_tonnes", 0), "area_hectares", 0)

\* _handle_missing_values, then _standardize_columns, on the frame of the batch
Normalize(batch) ==
    _standardize_columns(_handle_missing_values(DataFrame(batch.records, batch.keys)))

\* clean_agricultural_data, with the frames between its stages;
\* records is df.to_dict('records'), the value returned
CleanStages(batch) ==
    LET n == Normalize(batch)
        f == _remove_outliers(n)
    IN  [normalized |-> n, filtered |-> f, records |-> _validate_data(f).rows]

\* A batch is passed as the list of its dicts, or as a text.  The texts drawn
\* here: JSON of a list of dicts, of one dict, of the empty list, and two
\* that are not JSON.  Python's json reads the literal NaN as float nan.
BatchTexts ==
    {"[]",
     "[{\"Crop\": \"Maize\", \"value\": 100}]",
     "{\"Crop\": \"Maize\", \"value\": 100}",
     "[{\"Crop\": \"Maize\", \"value\": NaN}]",
     "[{\"Crop\": \"Maize\", \"value\": 100}",
     "Maize, 100"}

\* json.loads(raw_data), then raw_data if isinstance(raw_data, list) else
\* [raw_data]: the list of dicts read from a text of BatchTexts, or not ok
\* for the JSONDecodeError of a text that is not JSON
LoadBatch(text) ==
    LET list(recs) == [ok |-> TRUE, keys |-> <<"Crop", "value">>, records |-> recs]
    IN  CASE text = "[]" -> list(<<>>)
          [] text = "[{\"Crop\": \"Maize\", \"value\": 100}]" ->
                list(<<[Crop |-> "Maize", value |-> 100]>>)
          [] text = "{\"Crop\": \"Maize\", \"value\": 100}" ->
                list(<<[Crop |-> "Maize", value |-> 100]>>)
          [] text = "[{\"Crop\": \"Maize\", \"value\": NaN}]" ->
                list(<<[Crop |-> "Maize", value |-> NaN]>>)
          [] OTHER -> [ok |-> FALSE, keys |-> <<>>, records |-> <<>>]

IsText(raw) == "text" \in DOMAIN raw

\* the try block of clean_agricultural_data: the stages, or the exception
\* json.loads raised
CleanBody(raw) ==
    IF IsText(raw)
    THEN IF LoadBatch(raw.text).ok
         THEN CleanStages(LoadBatch(raw.text))
         ELSE [exception |-> "JSONDecodeError"]
    ELSE CleanStages(raw)

Raised(outcome) == "exception" \in DOMAIN outcome

\* as clean_agricultural_data, without the except clause
CleanUncaught(raw) ==
    CHOOSE returned \in {IF Raised(outcome) THEN outcome ELSE outcome.records :
                            outcome \in {CleanBody(raw)}} : TRUE

\* clean_agricultural_data: the records, [] when the try block raised
clean_agricultural_data(raw) ==
    CHOOSE returned \in {IF Raised(outcome) THEN <<>> ELSE outcome.records :
                            outcome \in {CleanBody(raw)}} : TRUE

(***************************************************************************)
(* Farmer profiles                                                         *)
(***************************************************************************)
\* Python's None in a numeric column and in a text column of a User
None == -888888
NoneText == "None"

\* truthiness of a number and of a text: None, 0 and "" are false
Truthy(x) == x # None /\ x # 0
TruthyText(t) == t # NoneText /\ t # ""

small_farm_tips ==
    <<"Consider intensive farming methods to maximize small farm productivity",
      "Explore high-value crops like vegetables and herbs for better returns",
      "Implement crop rotation to maintain soil fertility">>

large_farm_tips ==
    <<"Consider mechanization to improve efficiency on larger farms",
      "Diversify crops to reduce risk and increase income streams",
      "Explore contract farming opportunities with agribusiness companies">>

beginner_tips ==
    <<"Join local farmer groups to learn from experienced farmers",
      "Attend agricultural extension services and training programs",
      "Start with proven crops before experimenting with new varieties">>

county_tips ==
    [Nakuru   |-> "Consider dairy farming alongside crop production in this favorable climate",
     Kiambu   |-> "Coffee and tea are well-suited for this highland region",
     Meru     |-> "Miraa and coffee are traditional crops with good market potential",
     Machakos |-> "Drought-resistant crops like sorghum and millet work well here"]

\* as SizeTips, with a farm of exactly 5 acres counted as small
SizeTipsUpToFive(u) ==
    IF Truthy(u.farm_size) /\ u.farm_size <= 5 THEN small_farm_tips
    ELSE IF Truthy(u.farm_size) /\ u.farm_size > 5 THEN large_farm_tips
    ELSE <<>>

\* the tips of the farm size branch
SizeTips(u) ==
    IF Truthy(u.farm_size) /\ u.farm_size < 5 THEN small_farm_tips
    ELSE IF Truthy(u.farm_size) /\ u.farm_size >= 5 THEN large_farm_tips
    ELSE <<>>

\* the tips of the experience branch
ExperienceTips(u) ==
    IF Truthy(u.farming_experience) /\ u.farming_experience < 5 THEN beginner_tips
    ELSE <<>>

\* the tip of the county, when county_tips has one
CountyTips(u) ==
    IF u.county \in DOMAIN county_tips THEN <<county_tips[u.county]>> ELSE <<>>

\* as FirstFive, with the slice forgotten
NoSlice(s) == s

\* tips[:5]
FirstFive(s) == SubSeq(s, 1, Min(5, Len(s)))

\* as _generate_productivity_tips, with the county tip put first
CountyTipFirst(u) ==
    FirstFive(CountyTips(u) \o SizeTips(u) \o ExperienceTips(u))

_generate_productivity_tips(u) ==
    FirstFive(SizeTips(u) \o ExperienceTips(u) \o CountyTips(u))

\* The profiles: a county with a tip and with records, one with a tip, one
\* with neither; farm sizes and years on both sides of the thresholds;
\* primary_crops as register stores it (a JSON list), empty, and not JSON.
ProfileCounties == {"Nakuru", "Kiambu", "Turkana"}
FarmSizes == {None, 0, 3, 5, 8}
ExperienceYears == {None, 0, 3, 5}
PrimaryCropsTexts == {NoneText, "", "[]", "[\"Maize\", \"Beans\"]", "Maize, Beans"}

Profiles ==
    [full_name : {"Wanjiru"}, county : ProfileCounties, farm_size : FarmSizes,
     farming_experience : ExperienceYears, primary_crops : PrimaryCropsTexts]

NoUser ==
    [full_name |-> "", county |-> "", farm_size |-> None,
     farming_experience |-> None, primary_crops |-> NoneText]

NoBatch == [keys |-> <<>>, records |-> <<>>]

(***************************************************************************)
(* DataService: the AgriculturalData table and its ingestion               *)
(***************************************************************************)
\* the filter_by of _save_agricultural_data: the row has the source and the
\* record's county, crop_name, data_type, year and season (None matches NULL)
SameKeyAndValue(row, record, source) ==
    /\ row.data_source = source
    /\ row.county = record.county
    /\ row.crop_name = record.crop_name
    /\ row.data_type = record.data_type
    /\ row.year = record.year
    /\ row.season = record.season
    /\ row.value = record.value

SameKey(row, record, source) ==
    /\ row.data_source = source
    /\ row.county = record.county
    /\ row.crop_name = record.crop_name
    /\ row.data_type = record.data_type
    /\ row.year = record.year
    /\ row.season = record.season

\* as FirstMatch, finding nothing
NoMatch(rows, record, source) == 0

\* query.filter_by(...).first(): the index of the first row with the key, 0
\* for None.  The session autoflushes, so rows holds the rows added earlier
\* in the same call.
FirstMatch(rows, record, source) ==
    IF \E i \in 1..Len(rows) : SameKey(rows[i], record, source)
    THEN CHOOSE i \in 1..Len(rows) :
            /\ SameKey(rows[i], record, source)
            /\ \A j \in 1..(i - 1) : ~SameKey(rows[j], record, source)
    ELSE 0

\* AgriculturalData(...): created_at and updated_at default to the time of
\* the insert
NewRow(record, source, t) ==
    [data_source |-> source, data_type |-> record.data_type, county |-> record.county,
     crop_name |-> record.crop_name, season |-> record.season, year |-> record.year,
     value |-> record.value, unit |-> record.unit,
     raw_data |-> record, processed_data |-> record,
     created_at |-> t, updated_at |-> t]

\* as UpsertRecord, with the existing row replaced by a new one
UpsertReplacingRow(rows, record, source, t) ==
    LET i == FirstMatch(rows, record, source)
    IN  IF i = 0 THEN Append(rows, NewRow(record, source, t))
        ELSE [rows EXCEPT ![i] = NewRow(record, source, t)]

\* the body of the loop of _save_agricultural_data
UpsertRecord(rows, record, source, t) ==
    LET i == FirstMatch(rows, record, source)
    IN  IF i = 0 THEN Append(rows, NewRow(record, source, t))
        ELSE [rows EXCEPT ![i].value = record.value,
                          ![i].updated_at = t,
                          ![i].processed_data = record]

RECURSIVE UpsertAll(_, _, _, _)
UpsertAll(rows, records, source, t) ==
    IF records = <<>> THEN rows
    ELSE UpsertAll(UpsertRecord(rows, Head(records), source, t), Tail(records), source, t)

\* nullable=False: a row without year or data_type fails the flush
Insertable(record) == record.year # None /\ record.data_type # NoneText

\* as _save_agricultural_data, with the table emptied when the call fails
SaveEmptyingOnError(rows, records, source, t, failing) ==
    IF (\A i \in 1..Len(records) : Insertable(records[i])) /\ source \notin failing
    THEN [raised |-> FALSE, rows |-> UpsertAll(rows, records, source, t)]
    ELSE [raised |-> TRUE, rows |-> <<>>]

\* _save_agricultural_data: one transaction.  A record without year or
\* data_type matches no row (year IS NULL), is added, and fails the flush:
\* the call rolls back and raises.  So it does when db.session.commit()
\* raises (the database locked or not writable): failing holds the sources
\* whose commit does.
_save_agricultural_data(rows, records, source, t, failing) ==
    IF (\A i \in 1..Len(records) : Insertable(records[i])) /\ source \notin failing
    THEN [raised |-> FALSE, rows |-> UpsertAll(rows, records, source, t)]
    ELSE [raised |-> TRUE, rows |-> rows]

\* the sample lists of _get_sample_kilimo_data and _get_sample_knbs_data,
\* cut to one county and one crop
kilimo_counties == <<"Nakuru">>
kilimo_crops == <<"Maize">>
knbs_counties == <<"Nakuru">>
knbs_crops == <<"Maize">>

\* the values random.uniform draws: the ends of the ranges of Maize
ProductionValues == {1000, 50000}
PriceValues == {30, 60}
AreaValues == {100, 10000}

\* the pairs (county, crop) in the order of the nested loops
RECURSIVE Pairs(_, _)
Pairs(counties, crops) ==
    IF counties = <<>> THEN <<>>
    ELSE [j \in 1..Len(crops) |-> <<Head(counties), crops[j]>>] \o Pairs(Tail(counties), crops)

RECURSIVE Flatten(_)
Flatten(ss) == IF ss = <<>> THEN <<>> ELSE Head(ss) \o Flatten(Tail(ss))

\* _get_sample_kilimo_data: for each county and crop the production of last
\* year and the market price of this year
_get_sample_kilimo_data(production, price) ==
    LET pairs == Pairs(kilimo_counties, kilimo_crops)
    IN  Flatten([k \in 1..Len(pairs) |->
            <<[county |-> pairs[k][1], crop_name |-> pairs[k][2],
               data_type |-> "crop_production", year |-> CurrentYear - 1,
               value |-> production[pairs[k]], unit |-> "tonnes", season |-> "Long_Rains"],
              [county |-> pairs[k][1], crop_name |-> pairs[k][2],
               data_type |-> "market_prices", year |-> CurrentYear,
               value |-> price[pairs[k]], unit |-> "KES_per_kg", season |-> "Current"]>>])

\* _get_sample_knbs_data: for each county and crop the area of last year
_get_sample_knbs_data(area) ==
    LET pairs == Pairs(knbs_counties, knbs_crops)
    IN  [k \in 1..Len(pairs) |->
            [county |-> pairs[k][1], crop_name |-> pairs[k][2],
             data_type |-> "area_cultivated", year |-> CurrentYear - 1,
             value |-> area[pairs[k]], unit |-> "hectares", season |-> "Annual"]]

\* clean_agricultural_data([record]) in _fetch_kilimo_data and
\* _fetch_knbs_data: the record's numeric columns are year and value; the
\* record is kept when the frame of this one row keeps its row
CleanEach(sample) ==
    SelectSeq(sample,
        LAMBDA record :
            clean_agricultural_data(
                [keys |-> <<"year", "value">>,
                 records |-> <<[year |-> record.year, value |-> record.value]>>]) # <<>>)

\* if records: self._save_agricultural_data(records, source)
SaveIfAny(rows, records, source, t, failing) ==
    IF records # <<>> THEN _save_agricultural_data(rows, records, source, t, failing)
    ELSE [raised |-> FALSE, rows |-> rows]

\* fetch_latest_data from the save of the KilimoSTAT records on: an
\* exception of either save is turned into success False
FetchAfterFirstSave(first, kilimo_records, knbs_records, t, failing) ==
    IF first.raised
    THEN [success |-> FALSE, rows |-> first.rows, records |-> kilimo_records]
    ELSE CHOOSE fetched \in
            {[success |-> ~second.raised, rows |-> second.rows,
              records |-> kilimo_records \o knbs_records] :
                second \in {SaveIfAny(first.rows, knbs_records, "KNBS", t, failing)}} : TRUE

\* fetch_latest_data: each source is saved in a transaction of its own
fetch_latest_data(rows, production, price, area, t, failing) ==
    CHOOSE fetched \in
        UNION {{FetchAfterFirstSave(first, kilimo_records, knbs_records, t, failing) :
                    first \in {SaveIfAny(rows, kilimo_records, "KilimoSTAT", t, failing)}} :
                kilimo_records \in {CleanEach(_get_sample_kilimo_data(production, price))},
                knbs_records \in {CleanEach(_get_sample_knbs_data(area))}} : TRUE

\* The records passed to _save_agricultural_data: the Maize production the
\* sample data also holds, a second crop, and a record without a year.
MaizeRecord ==
    [county |-> "Nakuru", crop_name |-> "Maize", data_type |-> "crop_production",
     year |-> CurrentYear - 1, value |-> 40000, unit |-> "tonnes", season |-> "Long_Rains"]

SaveRecords ==
    {MaizeRecord,
     [MaizeRecord EXCEPT !.crop_name = "Beans", !.value = 12000],
     [MaizeRecord EXCEPT !.year = None]}

Sources == {"KilimoSTAT", "KNBS"}

NoCall == [op |-> "none", source |-> "", records |-> <<>>, raised |-> FALSE]

(***************************************************************************)
(* MLService: insights and report; ChatbotService: the user context        *)
(***************************************************************************)
\* Python's None as a returned value, and the result before any call
NoneValue == [none |-> TRUE]
NoResult == [called |-> FALSE]

\* json.loads on the texts of PrimaryCropsTexts: the list, or not ok for the
\* JSONDecodeError of a text that is not JSON
json_loads(text) ==
    CASE text = "[]" -> [ok |-> TRUE, value |-> <<>>]
      [] text = "[\"Maize\", \"Beans\"]" -> [ok |-> TRUE, value |-> <<"Maize", "Beans">>]
      [] OTHER -> [ok |-> FALSE, value |-> <<>>]

\* json.loads(user.primary_crops) if user.primary_crops else []
UserCrops(u) ==
    IF TruthyText(u.primary_crops) THEN json_loads(u.primary_crops)
    ELSE [ok |-> TRUE, value |-> <<>>]

\* the crop names in the order groupby sorts them
CropNames ==
    <<"Beans", "Coffee", "Irish Potatoes", "Maize", "Onions", "Rice",
      "Sweet Potatoes", "Tea", "Tomatoes", "Wheat">>

\* a mean is the pair <<sum, count>>, count > 0
MeanLess(a, b) == a[1] * b[2] < b[1] * a[2]

RECURSIVE SumOf(_)
SumOf(values) == IF values = <<>> THEN 0 ELSE Head(values) + SumOf(Tail(values))

\* df.groupby('crop_name')['value'].mean() of one crop
MeanOf(data_list, crop) ==
    LET own == SelectSeq(data_list, LAMBDA d : d.crop_name = crop)
    IN  <<SumOf([i \in 1..Len(own) |-> own[i].value]), Len(own)>>

\* sort_values('mean', ascending=False): crops of equal mean stay in the
\* order of the groups
RECURSIVE InsertByMean(_, _)
InsertByMean(sorted, g) ==
    IF sorted = <<>> THEN <<g>>
    ELSE IF MeanLess(Head(sorted).mean, g.mean) THEN <<g>> \o sorted
    ELSE <<Head(sorted)>> \o InsertByMean(Tail(sorted), g)

RECURSIVE SortByMeanDesc(_)
SortByMeanDesc(groups) ==
    IF groups = <<>> THEN <<>>
    ELSE InsertByMean(SortByMeanDesc(SubSeq(groups, 1, Len(groups) - 1)),
                      groups[Len(groups)])

\* crop_performance['mean'].median(), of the means sorted descending
MedianOfMeans(sorted) ==
    LET n == Len(sorted)
        a == sorted[n \div 2].mean
        b == sorted[n \div 2 + 1].mean
    IN  IF n % 2 = 1 THEN sorted[(n + 1) \div 2].mean
        ELSE <<a[1] * b[2] + b[1] * a[2], 2 * a[2] * b[2]>>

\* round(mean, 2), in hundredths (no mean of fewer than 8 values is a tie)
Round2(mean) == (200 * mean[1] + mean[2]) \div (2 * mean[2])

MaizeFallback(tier) ==
    [crop |-> "Maize",
     reason |-> <<"Staple crop suitable for most Kenyan counties">>,
     potential_yield |-> tier]

\* _analyze_crop_performance
_analyze_crop_performance(county_data, county) ==
    LET data_list == SelectSeq(county_data,
                        LAMBDA r : TruthyText(r.crop_name) /\ Truthy(r.value))
        crops     == SelectSeq(CropNames,
                        LAMBDA c : \E i \in 1..Len(data_list) : data_list[i].crop_name = c)
        groups    == [k \in 1..Len(crops) |->
                        [crop_name |-> crops[k], mean |-> MeanOf(data_list, crops[k])]]
        crop_performance == SortByMeanDesc(groups)
        top_crops == SubSeq(crop_performance, 1, Min(3, Len(crop_performance)))
    IN  IF data_list = <<>> THEN <<MaizeFallback("Medium to High")>>
        ELSE [k \in 1..Len(top_crops) |->
                [crop |-> top_crops[k].crop_name,
                 reason |-> <<"High average performance in", county, "county">>,
                 potential_yield |->
                    IF MeanLess(MedianOfMeans(crop_performance), top_crops[k].mean)
                    THEN "High" ELSE "Medium",
                 avg_value |-> Round2(top_crops[k].mean)]]

\* _analyze_market_trends: the last price of each crop, in row order
_analyze_market_trends(county_data) ==
    LET price_data == SelectSeq(county_data, LAMBDA d : d.data_type = "market_prices")
        price_df   == SelectSeq(price_data,
                        LAMBDA r : TruthyText(r.crop_name) /\ Truthy(r.value))
        crops      == {price_df[i].crop_name : i \in 1..Len(price_df)}
        last(c)    == CHOOSE i \in 1..Len(price_df) :
                        /\ price_df[i].crop_name = c
                        /\ \A j \in (i + 1)..Len(price_df) : price_df[j].crop_name # c
    IN  [price_trends |->
            [c \in crops |-> [current_price |-> price_df[last(c)].value, trend |-> "stable"]],
         production_trends |-> <<>>,
         seasonal_patterns |-> <<>>]

\* the Insight of the except branch of generate_farmer_insights
ZeroInsight ==
    [crop_recommendations |-> <<>>, market_trends |-> <<>>,
     weather_insights |-> <<>>, productivity_tips |-> <<>>]

\* AgriculturalData.query.filter_by(county=user_county).all()
CountyData(rows, county) == SelectSeq(rows, LAMBDA r : r.county = county)

\* the try block of generate_farmer_insights; an exception is the record
\* [exception |-> its class]
InsightsBody(rows, u) ==
    LET county_data == CountyData(rows, u.county)
    IN  IF ~UserCrops(u).ok THEN [exception |-> "JSONDecodeError"]
        ELSE [crop_recommendations |->
                IF county_data # <<>>
                THEN _analyze_crop_performance(county_data, u.county) ELSE <<>>,
              market_trends |->
                IF county_data # <<>> THEN _analyze_market_trends(county_data) ELSE <<>>,
              weather_insights |-> <<>>,
              productivity_tips |-> _generate_productivity_tips(u)]

\* as generate_farmer_insights, without its except branch
InsightsUncaught(rows, u) == InsightsBody(rows, u)

\* generate_farmer_insights
generate_farmer_insights(rows, u) ==
    IF "exception" \in DOMAIN InsightsBody(rows, u) THEN ZeroInsight
    ELSE InsightsBody(rows, u)

\* generate_agricultural_report: None from its except branch.  content is
\* the text of the template, line by line, each line with the values put
\* into it.
generate_agricultural_report(rows, u) ==
    LET insights == generate_farmer_insights(rows, u)
        recs == insights.crop_recommendations
        report_content ==
            <<[line |-> "Agricultural Analysis Report for", full_name |-> u.full_name],
              [line |-> "Farm Profile:"],
              [line |-> "- Location:", county |-> u.county],
              [line |-> "- Farm Size:", farm_size |-> u.farm_size],
              [line |-> "- Primary Crops:", crops |-> UserCrops(u).value],
              [line |-> "- Farming Experience:", years |-> u.farming_experience],
              [line |-> "Crop Recommendations:"]>>
            \o [i \in 1..Len(recs) |->
                    [line |-> "recommendation", number |-> i,
                     crop |-> recs[i].crop, reason |-> recs[i].reason]]
            \o <<[line |-> "Productivity Tips:"]>>
            \o [i \in 1..Len(insights.productivity_tips) |->
                    [line |-> "tip", number |-> i, tip |-> insights.productivity_tips[i]]]
    IN  IF ~UserCrops(u).ok THEN NoneValue
        ELSE [title |-> <<"Agricultural Analysis Report -", u.county, "County">>,
              type |-> "comprehensive_analysis",
              content |-> report_content,
              insights |-> insights]

\* x or 'Not specified', for a number
NumberOr(x, default) == IF Truthy(x) THEN [number |-> x] ELSE [text |-> default]

\* _prepare_user_context: the crops as the list joined, or 'Various crops'
_prepare_user_context(u) ==
    IF UserCrops(u).ok
    THEN [crops |-> IF UserCrops(u).value # <<>> THEN UserCrops(u).value
                    ELSE <<"Various crops">>,
          county |-> u.county,
          farm_size |-> NumberOr(u.farm_size, "Not specified"),
          experience |-> NumberOr(u.farming_experience, "Not specified")]
    ELSE [crops |-> <<"Various crops">>,
          county |-> IF TruthyText(u.county) THEN u.county ELSE "Kenya",
          farm_size |-> [text |-> "Not specified"],
          experience |-> [text |-> "Not specified"]]

\* The rows the insights are computed from: in Nakuru the production of two
\* crops, a price, and a production of 0.
InsightRecords ==
    {MaizeRecord,
     [MaizeRecord EXCEPT !.crop_name = "Beans", !.value = 12000],
     [MaizeRecord EXCEPT !.data_type = "market_prices", !.value = 45,
                         !.unit = "KES_per_kg", !.year = CurrentYear, !.season = "Current"],
     [MaizeRecord EXCEPT !.value = 0]}

(***************************************************************************)
(* Input batches                                                           *)
(***************************************************************************)
\* A batch spells its year field and its quantity field one way: the dicts'
\* keys in order.  "value" is a numeric field the table does not map.
Layouts ==
    {<<"year", "production_tonnes">>, <<"Year", "AREA">>, <<"YEAR", "value">>}

YearValues == {1958, 1960, 2028}
QuantityValues == {-2, 100}

\* the dicts over the keys of a layout: every one has the quantity, and
\* may lack the year
RawRecords(layout) ==
    {[k \in {layout[1], layout[2]} |-> IF k = layout[1] THEN y ELSE q] :
        y \in YearValues, q \in QuantityValues}
    \cup {[k \in {layout[2]} |-> q] : q \in QuantityValues}

\* the batches of n records of a layout
Batches(layout, n) ==
    {[keys |-> layout, records |-> recs] : recs \in [1..n -> RawRecords(layout)]}

(***************************************************************************)
(* The cleaning pipeline applied to one batch                              *)
(***************************************************************************)
\* batches of every layout up to MaxRows - 1 records, and of the Year/AREA
\* layout up to MaxRows
InitClean ==
    /\ \/ \E layout \in Layouts, n \in 0..(MaxRows - 1) : raw_data \in Batches(layout, n)
       \/ raw_data \in Batches(<<"Year", "AREA">>, MaxRows)
    /\ normalized = EmptyFrame
    /\ filtered = EmptyFrame
    /\ cleaned = <<>>
    /\ pc = "start"
    /\ user = NoUser
    /\ tips = <<>>
    /\ store = <<>>
    /\ now = 0
    /\ last_call = NoCall
    /\ result = NoResult
    /\ NoWeb

CleanAgriculturalData ==
    /\ pc = "start"
    /\ LET stages == CleanBody(raw_data)
       IN  /\ normalized' = IF Raised(stages) THEN EmptyFrame ELSE stages.normalized
           /\ filtered' = IF Raised(stages) THEN EmptyFrame ELSE stages.filtered
           /\ cleaned' = clean_agricultural_data(raw_data)
    /\ pc' = "done"
    /\ UNCHANGED <<raw_data, tipVars, storeVars, result, webVars>>

NextClean == CleanAgriculturalData

SpecClean == InitClean /\ [][NextClean]_vars

(***************************************************************************)
(* The cleaning pipeline applied to a batch of texts and numbers with      *)
(* missing values, or to a text                                            *)
(***************************************************************************)
\* a text field and a numeric field; "county" and "value" are not keys of
\* the table of _standardize_columns
TextLayouts == {<<"Crop", "value">>, <<"county", "Production">>}

TextValues == {"Maize", "Beans", MissingText}
NumberValues == {2, 100, NaN}

\* the dicts over a layout: a text or None, and a number or nan
TextRecords(layout) ==
    {[k \in {layout[1], layout[2]} |-> IF k = layout[1] THEN t ELSE v] :
        t \in TextValues, v \in NumberValues}

TextBatches(layout, n) ==
    {[keys |-> layout, records |-> recs] : recs \in [1..n -> TextRecords(layout)]}

\* batches of both layouts up to MaxRows - 1 records, of the Crop/value
\* layout up to MaxRows, and the texts
InitImpute ==
    /\ \/ \E layout \in TextLayouts, n \in 0..(MaxRows - 1) : raw_data \in TextBatches(layout, n)
       \/ raw_data \in TextBatches(<<"Crop", "value">>, MaxRows)
       \/ raw_data \in {[text |-> t] : t \in BatchTexts}
    /\ normalized = EmptyFrame
    /\ filtered = EmptyFrame
    /\ cleaned = <<>>
    /\ pc = "start"
    /\ user = NoUser
    /\ tips = <<>>
    /\ store = <<>>
    /\ now = 0
    /\ last_call = NoCall
    /\ result = NoResult
    /\ NoWeb

SpecImpute == InitImpute /\ [][NextClean]_vars

(***************************************************************************)
(* _generate_productivity_tips applied to one profile                      *)
(***************************************************************************)
InitTips ==
    /\ user \in Profiles
    /\ tips = <<>>
    /\ pc = "start"
    /\ raw_data = NoBatch
    /\ normalized = EmptyFrame
    /\ filtered = EmptyFrame
    /\ cleaned = <<>>
    /\ store = <<>>
    /\ now = 0
    /\ last_call = NoCall
    /\ result = NoResult
    /\ NoWeb

GenerateProductivityTips ==
    /\ pc = "start"
    /\ tips' = _generate_productivity_tips(user)
    /\ pc' = "done"
    /\ UNCHANGED <<user, cleanVars, storeVars, result, webVars>>

NextTips == GenerateProductivityTips

SpecTips == InitTips /\ [][NextTips]_vars

(***************************************************************************)
(* Ingestion into the table                                                *)
(***************************************************************************)
Init ==
    /\ store = <<>>
    /\ now = 0
    /\ last_call = NoCall
    /\ result = NoResult
    /\ NoWeb
    /\ pc = "idle"
    /\ raw_data = NoBatch
    /\ normalized = EmptyFrame
    /\ filtered = EmptyFrame
    /\ cleaned = <<>>
    /\ user = NoUser
    /\ tips = <<>>

\* a call of _save_agricultural_data with a source of sources and a batch
\* of batches; an exception leaves the table as it was
SaveFrom(sources, batches, failures) ==
    /\ now < MaxTime
    /\ \E source \in sources, records \in batches, failing \in failures :
            \E saved \in {_save_agricultural_data(store, records, source, now + 1, failing)} :
                /\ store' = saved.rows
                /\ last_call' = [op |-> "save", source |-> source,
                                 records |-> records, raised |-> saved.raised]
    /\ now' = now + 1
    /\ UNCHANGED <<cleanVars, tipVars, result, pc, webVars>>

\* a call of fetch_latest_data (the update-data request), random.uniform
\* drawing the values from productions, prices and areas
FetchFrom(productions, prices, areas, failures) ==
    /\ now < MaxTime
    /\ \E production \in [Range(Pairs(kilimo_counties, kilimo_crops)) -> productions],
          price \in [Range(Pairs(kilimo_counties, kilimo_crops)) -> prices],
          area \in [Range(Pairs(knbs_counties, knbs_crops)) -> areas],
          failing \in failures :
            \E fetched \in {fetch_latest_data(store, production, price, area, now + 1, failing)} :
                /\ store' = fetched.rows
                /\ last_call' = [op |-> "fetch", source |-> "KilimoSTAT, KNBS",
                                 records |-> fetched.records, raised |-> ~fetched.success]
    /\ now' = now + 1
    /\ UNCHANGED <<cleanVars, tipVars, result, pc, webVars>>

SaveAgriculturalData ==
    SaveFrom(Sources, UNION {[1..n -> SaveRecords] : n \in 0..MaxBatch}, {{}})

FetchLatestData == FetchFrom(ProductionValues, PriceValues, AreaValues, {{}})

Next == SaveAgriculturalData \/ FetchLatestData

Spec == Init /\ [][Next]_vars

\* the same calls on a database whose commits may raise: for any of the
\* sources, db.session.commit() of its save fails
SaveWithOutage ==
    SaveFrom(Sources, UNION {[1..n -> SaveRecords] : n \in 0..MaxBatch}, SUBSET Sources)

FetchWithOutage == FetchFrom(ProductionValues, PriceValues, AreaValues, SUBSET Sources)

NextOutage == SaveWithOutage \/ FetchWithOutage

SpecOutage == Init /\ [][NextOutage]_vars

(***************************************************************************)
(* Insights, report and context over a table filled by one ingestion       *)
(***************************************************************************)
InitInsight ==
    /\ \E n \in 0..MaxBatch :
        \E records \in [1..n -> InsightRecords] :
            /\ store = _save_agricultural_data(<<>>, records, "KilimoSTAT", 1, {}).rows
            /\ last_call = [op |-> "save", source |-> "KilimoSTAT",
                            records |-> records, raised |-> FALSE]
    /\ now = 1
    /\ result = NoResult
    /\ NoWeb
    /\ pc = "idle"
    /\ raw_data = NoBatch
    /\ normalized = EmptyFrame
    /\ filtered = EmptyFrame
    /\ cleaned = <<>>
    /\ user = NoUser
    /\ tips = <<>>

\* the dashboard request: generate_farmer_insights(current_user)
GenerateFarmerInsights ==
    /\ pc = "idle"
    /\ \E u \in Profiles :
        /\ user' = u
        /\ result' = generate_farmer_insights(store, u)
    /\ pc' = "insights"
    /\ UNCHANGED <<cleanVars, tips, storeVars, webVars>>

\* generate_agricultural_report(current_user)
GenerateAgriculturalReport ==
    /\ pc = "idle"
    /\ \E u \in Profiles :
        /\ user' = u
        /\ result' = generate_agricultural_report(store, u)
    /\ pc' = "report"
    /\ UNCHANGED <<cleanVars, tips, storeVars, webVars>>

\* _prepare_user_context(user)
PrepareUserContext ==
    /\ pc = "idle"
    /\ \E u \in Profiles :
        /\ user' = u
        /\ result' = _prepare_user_context(u)
    /\ pc' = "context"
    /\ UNCHANGED <<cleanVars, tips, storeVars, webVars>>

NextInsight == GenerateFarmerInsights \/ GenerateAgriculturalReport \/ PrepareUserContext

SpecInsight == InitInsight /\ [][NextInsight]_vars

(***************************************************************************)
(* The county analysis of generate_farmer_insights over one table          *)
(***************************************************************************)
\* The rows the county analysis reads: in Nakuru four crops (two of equal
\* value), two prices of Maize of different years, a production and a price
\* of 0, a row without crop name; and a row of another county.
AnalysisRecords ==
    {MaizeRecord,
     [MaizeRecord EXCEPT !.crop_name = "Beans", !.value = 12000],
     [MaizeRecord EXCEPT !.crop_name = "Tea", !.value = 12000],
     [MaizeRecord EXCEPT !.crop_name = "Coffee", !.value = 8000],
     [MaizeRecord EXCEPT !.data_type = "market_prices", !.value = 45,
                         !.unit = "KES_per_kg", !.year = CurrentYear, !.season = "Current"],
     [MaizeRecord EXCEPT !.data_type = "market_prices", !.value = 50,
                         !.unit = "KES_per_kg", !.season = "Current"],
     [MaizeRecord EXCEPT !.crop_name = "Beans", !.value = 0, !.season = "Short_Rains"],
     [MaizeRecord EXCEPT !.data_type = "market_prices", !.value = 0,
                         !.unit = "KES_per_kg", !.season = "Short_Rains"],
     [MaizeRecord EXCEPT !.county = "Kiambu", !.crop_name = "Wheat", !.value = 90000],
     [MaizeRecord EXCEPT !.crop_name = NoneText, !.value = 70000]}

\* the farmer the analysis is made for
AnalysisProfile ==
    [full_name |-> "Wanjiru", county |-> "Nakuru", farm_size |-> 3,
     farming_experience |-> 3, primary_crops |-> "[\"Maize\", \"Beans\"]"]

InitAnalysis ==
    /\ \E n \in 0..MaxCountyRows :
        \E records \in [1..n -> AnalysisRecords] :
            /\ store = _save_agricultural_data(<<>>, records, "KilimoSTAT", 1, {}).rows
            /\ last_call = [op |-> "save", source |-> "KilimoSTAT",
                            records |-> records, raised |-> FALSE]
    /\ now = 1
    /\ result = NoResult
    /\ NoWeb
    /\ pc = "idle"
    /\ raw_data = NoBatch
    /\ normalized = EmptyFrame
    /\ filtered = EmptyFrame
    /\ cleaned = <<>>
    /\ user = AnalysisProfile
    /\ tips = <<>>

\* generate_farmer_insights(current_user) for the farmer of the table
AnalyzeCounty ==
    /\ pc = "idle"
    /\ result' = generate_farmer_insights(store, user)
    /\ pc' = "insights"
    /\ UNCHANGED <<cleanVars, tipVars, storeVars, webVars>>

NextAnalysis == AnalyzeCounty

SpecAnalysis == InitAnalysis /\ [][NextAnalysis]_vars

(***************************************************************************)
(* MLService: predict_crop_yield                                           *)
(***************************************************************************)
features == <<"area_hectares", "year">>

\* as EnoughRows, with 10 rows accepted
EnoughRowsFromTen(n) == n >= 10

\* len(X) > 10
EnoughRows(n) == n > 10

\* train_test_split(test_size=0.2): the test set has ceil(0.2 * n) rows
TestRows(n) == (n + 4) \div 5

\* The try block of predict_crop_yield.  The numbers of the regression are
\* not computed: "r2", "prediction" and "coef" stand for them.  A NaN in a
\* feature or in the production makes fit, predict or r2_score raise a
\* ValueError, whichever side of the split its row falls on.
YieldBody(crop_data) ==
    LET df == DataFrame(crop_data, features \o <<"production_tonnes">>)
        n  == Len(df.rows)
        used == features \o <<"production_tonnes">>
    IN  IF crop_data = <<>> THEN NoneValue
        ELSE IF ~(\A k \in 1..Len(features) : features[k] \in Range(df.columns))
        THEN NoneValue
        ELSE IF ~("production_tonnes" \in Range(df.columns) /\ EnoughRows(n))
        THEN NoneValue
        ELSE IF \E i \in 1..n, k \in 1..Len(used) : df.rows[i][used[k]] = NaN
        THEN [exception |-> "ValueError"]
        ELSE [model_accuracy |-> "r2",
              predictions |-> [i \in 1..TestRows(n) |-> "prediction"],
              feature_importance |-> [f \in Range(features) |-> "coef"]]

\* predict_crop_yield: None from its except branch
predict_crop_yield(crop_data) ==
    IF "exception" \in DOMAIN YieldBody(crop_data) THEN NoneValue
    ELSE YieldBody(crop_data)

\* The records of a batch: with the three fields, and lacking one of them.
YieldRecord ==
    [area_hectares |-> 100, year |-> CurrentYear - 2, production_tonnes |-> 1000]

YieldRecords ==
    {YieldRecord,
     [k \in {"year", "production_tonnes"} |-> YieldRecord[k]],
     [k \in {"area_hectares", "production_tonnes"} |-> YieldRecord[k]],
     [k \in {"area_hectares", "year"} |-> YieldRecord[k]]}

\* the batches of n records: j records of one kind, then records of another
YieldBatches(n) ==
    {[i \in 1..n |-> IF i <= j THEN first ELSE rest] :
        j \in 0..n, first \in YieldRecords, rest \in YieldRecords}

InitYield ==
    /\ \E n \in 0..MaxYieldRows :
        \E crop_data \in YieldBatches(n) :
            raw_data = [keys |-> features \o <<"production_tonnes">>, records |-> crop_data]
    /\ normalized = EmptyFrame
    /\ filtered = EmptyFrame
    /\ cleaned = <<>>
    /\ pc = "start"
    /\ user = NoUser
    /\ tips = <<>>
    /\ store = <<>>
    /\ now = 0
    /\ last_call = NoCall
    /\ result = NoResult
    /\ NoWeb

PredictCropYield ==
    /\ pc = "start"
    /\ result' = predict_crop_yield(raw_data.records)
    /\ pc' = "predicted"
    /\ UNCHANGED <<cleanVars, tipVars, storeVars, webVars>>

NextYield == PredictCropYield

SpecYield == InitYield /\ [][NextYield]_vars

(***************************************************************************)
(* DataService: the queries                                                *)
(***************************************************************************)
\* limit(50)
QueryLimit == 50

\* order_by(year.desc()): rows of the same year stay in the order of the table
RECURSIVE InsertByYearDesc(_, _)
InsertByYearDesc(sorted, row) ==
    IF sorted = <<>> THEN <<row>>
    ELSE IF Head(sorted).year < row.year THEN <<row>> \o sorted
    ELSE <<Head(sorted)>> \o InsertByYearDesc(Tail(sorted), row)

RECURSIVE SortByYearDesc(_)
SortByYearDesc(rows) ==
    IF rows = <<>> THEN <<>>
    ELSE InsertByYearDesc(SortByYearDesc(SubSeq(rows, 1, Len(rows) - 1)), rows[Len(rows)])

\* get_county_data: the rows of the county (and of the crop, when one is
\* given), latest year first, at most 50, as dicts of seven fields
get_county_data(rows, county_name, crop_name) ==
    LET matching == SelectSeq(rows,
                        LAMBDA r : /\ r.county = county_name
                                   /\ TruthyText(crop_name) => r.crop_name = crop_name)
        ordered  == SortByYearDesc(matching)
        data     == SubSeq(ordered, 1, Min(QueryLimit, Len(ordered)))
    IN  [i \in 1..Len(data) |->
            [county |-> data[i].county, crop_name |-> data[i].crop_name,
             data_type |-> data[i].data_type, year |-> data[i].year,
             value |-> data[i].value, unit |-> data[i].unit, season |-> data[i].season]]

\* the years of a set in ascending order
RECURSIVE SortedYears(_)
SortedYears(S) ==
    IF S = {} THEN <<>>
    ELSE LET y == CHOOSE x \in S : \A z \in S : x <= z
         IN  <<y>> \o SortedYears(S \ {y})

\* get_crop_trends: the production of the crop summed by year, over the
\* years from current_year - years on
get_crop_trends(rows, crop_name, years) ==
    LET data == SelectSeq(rows,
                    LAMBDA r : /\ r.crop_name = crop_name
                               /\ r.year >= CurrentYear - years
                               /\ r.data_type = "crop_production")
        total(y) == SumOf([i \in 1..Len(data) |->
                            IF data[i].year = y /\ Truthy(data[i].value)
                            THEN data[i].value ELSE 0])
        ys == SortedYears({data[i].year : i \in 1..Len(data)})
    IN  [crop |-> crop_name,
         trend_data |-> [k \in 1..Len(ys) |-> [year |-> ys[k], production |-> total(ys[k])]]]

(***************************************************************************)
(* Ingestion, queries, insights and reports in any order                   *)
(***************************************************************************)
\* the farmers served: of a county with rows, with a crop list that is not
\* JSON, and of a county without rows
CoreProfiles ==
    {AnalysisProfile,
     [AnalysisProfile EXCEPT !.primary_crops = "Maize, Beans"],
     [AnalysisProfile EXCEPT !.county = "Kiambu"]}

\* the batches ingested: a row of Nakuru, two rows, and a batch that fails
CoreBatches ==
    {<<MaizeRecord>>,
     <<MaizeRecord, [MaizeRecord EXCEPT !.crop_name = "Beans", !.value = 12000]>>,
     <<[MaizeRecord EXCEPT !.crop_name = "Beans", !.value = 12000],
       [MaizeRecord EXCEPT !.year = None]>>}

InitCore ==
    /\ store = <<>>
    /\ now = 0
    /\ last_call = NoCall
    /\ result = NoResult
    /\ NoWeb
    /\ pc = "idle"
    /\ raw_data = NoBatch
    /\ normalized = EmptyFrame
    /\ filtered = EmptyFrame
    /\ cleaned = <<>>
    /\ user \in CoreProfiles
    /\ tips = <<>>

\* as ReportOfUser, with the parsed crop list written back to the profile
ReportNormalizingProfile ==
    /\ result' = generate_agricultural_report(store, user)
    /\ pc' = "report"
    /\ user' = [user EXCEPT !.primary_crops = "[]"]
    /\ UNCHANGED <<cleanVars, tips, storeVars, webVars>>

\* the dashboard request: generate_farmer_insights(current_user)
InsightsOfUser ==
    /\ result' = generate_farmer_insights(store, user)
    /\ pc' = "insights"
    /\ UNCHANGED <<cleanVars, tipVars, storeVars, webVars>>

\* the reports request: generate_agricultural_report(current_user)
ReportOfUser ==
    /\ result' = generate_agricultural_report(store, user)
    /\ pc' = "report"
    /\ UNCHANGED <<cleanVars, tipVars, storeVars, webVars>>

SaveCoreBatch == SaveFrom({"KilimoSTAT"}, CoreBatches, {{}})

FetchCoreData == FetchFrom({1000}, {30}, {100}, {{}})

GetCountyData ==
    /\ \E county_name \in {"Nakuru", "Kiambu"}, crop_name \in {NoneText, "Maize"} :
            result' = [data |-> get_county_data(store, county_name, crop_name)]
    /\ pc' = "county_data"
    /\ UNCHANGED <<cleanVars, tipVars, storeVars, webVars>>

GetCropTrends ==
    /\ \E crop_name \in {"Maize", "Beans"} :
            result' = get_crop_trends(store, crop_name, 5)
    /\ pc' = "crop_trends"
    /\ UNCHANGED <<cleanVars, tipVars, storeVars, webVars>>

NextCore ==
    \/ SaveCoreBatch
    \/ FetchCoreData
    \/ InsightsOfUser
    \/ ReportOfUser
    \/ GetCountyData
    \/ GetCropTrends

SpecCore == InitCore /\ [][NextCore]_vars

(***************************************************************************)
(* Properties of the cleaning pipeline (SpecClean)                         *)
(***************************************************************************)
\* every value of column c of the frame df lies within
\* [Q1 - 1.5*IQR, Q3 + 1.5*IQR] of the column s
ColumnInBounds(df, c, s) ==
    LET lower == LowerBound8(s)
        upper == UpperBound8(s)
    IN  \A i \in 1..Len(df.rows) :
            /\ df.rows[i][c] # NaN
            /\ NotNa(s) # <<>>
            /\ 8 * df.rows[i][c] >= lower
            /\ 8 * df.rows[i][c] <= upper

\* C4: every record clean_agricultural_data returns has 1960 <= year <=
\* current_year when it has a year, and non-negative production_tonnes and
\* area_hectares when it has them, however the batch spelled its fields.
C4_ValidRecords ==
    pc = "done" =>
        \A i \in 1..Len(cleaned) :
            LET r == cleaned[i]
            IN  /\ "year" \in DOMAIN r => r["year"] >= 1960 /\ r["year"] <= CurrentYear
                /\ "production_tonnes" \in DOMAIN r => r["production_tonnes"] >= 0
                /\ "area_hectares" \in DOMAIN r => r["area_hectares"] >= 0

\* a batch spelled Year/AREA with a year before 1960, a year after the
\* current one and a negative area, of which the validity checks dropped
\* rows and let others through
C4_Witness ==
    /\ pc = "done"
    /\ raw_data.keys = <<"Year", "AREA">>
    /\ \E i \in 1..Len(raw_data.records) :
            "Year" \in DOMAIN raw_data.records[i] /\ raw_data.records[i]["Year"] = 1958
    /\ \E i \in 1..Len(raw_data.records) :
            "Year" \in DOMAIN raw_data.records[i] /\ raw_data.records[i]["Year"] = 2028
    /\ \E i \in 1..Len(raw_data.records) :
            "AREA" \in DOMAIN raw_data.records[i] /\ raw_data.records[i]["AREA"] = -2
    /\ Len(cleaned) >= 1
    /\ Len(cleaned) < Len(filtered.rows)

\* C5, as claimed: every value left by the outlier filter lies within the
\* IQR bounds of its column as the column was before any filtering.
C5_BoundsOfUnfilteredColumn ==
    pc = "done" =>
        \A c \in Range(filtered.columns) :
            ColumnInBounds(filtered, c, Column(normalized, c))

\* the frame the pass of the j-th column starts from
FrameBeforePass(df, j) == RemoveOutliersFrom(df, SubSeq(df.columns, 1, j - 1))

\* C5, amended: every value left by the outlier filter lies within the IQR
\* bounds of its column as the column was when the filter reached it, that
\* is without the rows the passes of the preceding columns had dropped.
C5_BoundsOfColumnAtItsPass ==
    pc = "done" =>
        \A j \in 1..Len(normalized.columns) :
            ColumnInBounds(filtered, normalized.columns[j],
                           Column(FrameBeforePass(normalized, j), normalized.columns[j]))

\* the pass of the first column dropped a row, so the second column was
\* filtered by the quantiles of a shorter column, and rows are left
C5_Witness ==
    /\ pc = "done"
    /\ Len(normalized.columns) = 2
    /\ Len(FrameBeforePass(normalized, 2).rows) < Len(normalized.rows)
    /\ Len(filtered.rows) >= 1

\* C6: _handle_missing_values followed by _standardize_columns returns as
\* many rows as the batch has records.
C6_RowCountKept ==
    pc = "done" => Len(normalized.rows) = Len(raw_data.records)

\* a batch of several records, one lacking a field (a NaN to fill), whose
\* columns were renamed
C6_Witness ==
    /\ pc = "done"
    /\ Len(raw_data.records) >= 2
    /\ \E i \in 1..Len(raw_data.records) :
            DOMAIN raw_data.records[i] # Range(raw_data.keys)
    /\ normalized.columns # raw_data.keys
    /\ Len(normalized.columns) = 2

(***************************************************************************)
(* Properties of the ingestion (Spec)                                      *)
(***************************************************************************)
\* the key of a row: (source, county, crop_name, data_type, year, season)
KeyOfRow(row) ==
    <<row.data_source, row.county, row.crop_name, row.data_type, row.year, row.season>>

\* the keys of the records of a call, in the order of the records
KeysOfRecords(records) ==
    [i \in 1..Len(records) |->
        <<records[i].county, records[i].crop_name, records[i].data_type,
          records[i].year, records[i].season>>]

\* C1: after any sequence of _save_agricultural_data and fetch_latest_data
\* calls from the empty table, no two rows of the table have the same
\* (source, county, crop_name, data_type, year, season).
C1_OneRowPerKey ==
    \A i, j \in 1..Len(store) :
        KeyOfRow(store[i]) = KeyOfRow(store[j]) => i = j

\* a saved batch that held the same key twice, after an earlier call
C1_Witness ==
    /\ now = 2
    /\ last_call.op = "save"
    /\ ~last_call.raised
    /\ Len(last_call.records) = 2
    /\ KeysOfRecords(last_call.records)[1] = KeysOfRecords(last_call.records)[2]
    /\ Len(store) >= 2
    /\ \E i \in 1..Len(store) :
            /\ SameKey(store[i], last_call.records[1], last_call.source)
            /\ store[i].created_at = 1

\* C2: a call that ingests again what the call before it ingested (the same
\* operation, source and record keys in the same order) leaves the number of
\* rows as it was after that call.
C2_SameCountOnReingestion ==
    [][(/\ last_call.op # "none"
        /\ now' = now + 1
        /\ last_call'.op = last_call.op
        /\ last_call'.source = last_call.source
        /\ KeysOfRecords(last_call'.records) = KeysOfRecords(last_call.records))
       => Len(store') = Len(store)]_vars

\* two calls were made, and every row was inserted by the first and updated
\* by the second, whose source and record keys are those of the rows
C2_Witness ==
    /\ now = 2
    /\ ~last_call.raised
    /\ Len(store) >= 2
    /\ \A i \in 1..Len(store) :
            /\ store[i].created_at = 1
            /\ store[i].updated_at = 2
            /\ \E k \in 1..Len(last_call.records) :
                    KeysOfRecords(last_call.records)[k]
                        = <<store[i].county, store[i].crop_name, store[i].data_type,
                            store[i].year, store[i].season>>

(***************************************************************************)
(* Properties of the insights, the report and the context (SpecInsight)    *)
(***************************************************************************)
\* C3: when the table has no row of the farmer's county,
\* generate_farmer_insights returns exactly one crop recommendation, for
\* Maize, of tier Medium or High and with a reason.
C3_MaizeWithoutCountyRecords ==
    (pc = "insights" /\ CountyData(store, user.county) = <<>>) =>
        /\ Len(result.crop_recommendations) = 1
        /\ result.crop_recommendations[1].crop = "Maize"
        /\ result.crop_recommendations[1].potential_yield \in {"Medium", "High"}
        /\ result.crop_recommendations[1].reason # <<>>

C8_UnparseableCropsRecovered ==
    ~UserCrops(user).ok =>
        /\ pc = "insights" => result.productivity_tips = _generate_productivity_tips(user)
        /\ pc = "report" => result # NoneValue
        /\ pc = "context" =>
                /\ result.farm_size = NumberOr(user.farm_size, "Not specified")
                /\ result.experience = NumberOr(user.farming_experience, "Not specified")

(***************************************************************************)
(* Properties of the productivity tips (SpecTips)                          *)
(***************************************************************************)
\* C9: the list _generate_productivity_tips returns has at most 5 elements,
\* whatever the farm size, the years of experience and the county.
C9_AtMostFiveTips ==
    pc = "done" => Len(tips) <= 5

\* a profile with three size tips, three experience tips and a county tip
C9_Witness ==
    /\ pc = "done"
    /\ Len(SizeTips(user)) + Len(ExperienceTips(user)) + Len(CountyTips(user)) = 7
    /\ Len(tips) = 5

\* C10: the tips returned are the first five (all, when fewer) of the size
\* tips, then the experience tips, then the county tip; the county tip is
\* returned only when fewer than five tips precede it.
C10_TipsInFixedOrder ==
    pc = "done" =>
        LET all == SizeTips(user) \o ExperienceTips(user) \o CountyTips(user)
        IN  /\ Len(tips) = Min(5, Len(all))
            /\ \A i \in 1..Len(tips) : tips[i] = all[i]
            /\ (\E i \in 1..Len(tips) : tips[i] \in Range(CountyTips(user)))
                    => Len(SizeTips(user)) + Len(ExperienceTips(user)) < 5

\* a county tip returned after three size tips
C10_Witness ==
    /\ pc = "done"
    /\ Len(tips) = 4
    /\ Len(SizeTips(user)) = 3
    /\ tips[4] \in Range(CountyTips(user))

\* the tips the thresholds select for a farm size f and e years of
\* experience, as the returned list shows them: the three tips of the size
\* first, then the beginner tips as far as the cap of five leaves room
TipsOfThresholds(f, e) ==
    /\ Len(tips) >= 3
    /\ SubSeq(tips, 1, 3) = (IF f < 5 THEN small_farm_tips ELSE large_farm_tips)
    /\ IF e < 5
       THEN Len(tips) = 5 /\ SubSeq(tips, 4, 5) = SubSeq(beginner_tips, 1, 2)
       ELSE \A i \in 1..Len(tips) : tips[i] \notin Range(beginner_tips)

\* C11 as stated: for every profile with a non-negative farm size and a
\* non-negative number of years, the tips are those of the thresholds of
\* 5 acres and 5 years.
C11_ThresholdsForNonNegative ==
    (pc = "done" /\ user.farm_size # None /\ user.farm_size >= 0
                 /\ user.farming_experience # None /\ user.farming_experience >= 0) =>
        TipsOfThresholds(user.farm_size, user.farming_experience)

\* C11 amended: for every profile with a positive farm size and a positive
\* number of years, the tips are those of the thresholds of 5 acres and
\* 5 years.
C11_ThresholdsForPositive ==
    (pc = "done" /\ user.farm_size # None /\ user.farm_size > 0
                 /\ user.farming_experience # None /\ user.farming_experience > 0) =>
        TipsOfThresholds(user.farm_size, user.farming_experience)

\* a farm of exactly 5 acres of a farmer of 3 years: the large-farm tips
\* and two beginner tips
C11_Witness ==
    /\ pc = "done"
    /\ user.farm_size = 5
    /\ user.farming_experience = 3
    /\ SubSeq(tips, 1, 3) = large_farm_tips
    /\ tips[4] = beginner_tips[1]

(***************************************************************************)
(* Properties of the county analysis (SpecAnalysis)                        *)
(***************************************************************************)
\* the persisted rows of the farmer's county, those of them with a crop
\* name, and the crops they name
RowsOfCounty == SelectSeq(store, LAMBDA r : r.county = user.county)
RowsOfCrop(c) == SelectSeq(RowsOfCounty, LAMBDA r : r.crop_name = c)
CropsOfCounty ==
    {RowsOfCounty[i].crop_name : i \in {j \in 1..Len(RowsOfCounty) :
                                            RowsOfCounty[j].crop_name # NoneText}}

\* the mean of value over all the county's rows of crop c, as <<sum, count>>
MeanOverAllRows(c) ==
    <<SumOf([i \in 1..Len(RowsOfCrop(c)) |-> RowsOfCrop(c)[i].value]), Len(RowsOfCrop(c))>>

\* C12: when the county has records, crop_recommendations has
\* min(3, number of distinct crops) entries, one per crop, in descending
\* order of the per-crop mean, and no crop left out has a higher mean than
\* a crop recommended.
C12_TopThreeByMean ==
    (pc = "insights" /\ RowsOfCounty # <<>>) =>
        LET recs == result.crop_recommendations
            recommended == {recs[i].crop : i \in 1..Len(recs)}
        IN  /\ Len(recs) = Min(3, Cardinality(CropsOfCounty))
            /\ recommended \subseteq CropsOfCounty
            /\ Cardinality(recommended) = Len(recs)
            /\ \A i, j \in 1..Len(recs) :
                    i < j => ~MeanLess(MeanOverAllRows(recs[i].crop),
                                       MeanOverAllRows(recs[j].crop))
            /\ \A c \in CropsOfCounty \ recommended : \A i \in 1..Len(recs) :
                    ~MeanLess(MeanOverAllRows(recs[i].crop), MeanOverAllRows(c))

\* C13: the avg_value reported for a recommended crop of the county is the
\* mean of value over all the county's rows of that crop (to two decimals,
\* avg_value being in hundredths), rows of value 0 included.
C13_MeanOverAllRecords ==
    pc = "insights" =>
        \A i \in 1..Len(result.crop_recommendations) :
            LET rec  == result.crop_recommendations[i]
                mean == MeanOverAllRows(rec.crop)
                diff == 100 * mean[1] - rec.avg_value * mean[2]
            IN  rec.crop \in CropsOfCounty =>
                    /\ "avg_value" \in DOMAIN rec
                    /\ 2 * diff <= mean[2]
                    /\ 2 * (0 - diff) <= mean[2]

\* the mean of rank k (1 the lowest) among the means of the county's crops
MeanOfRank(k) ==
    LET c == CHOOSE c \in CropsOfCounty :
                /\ Cardinality({d \in CropsOfCounty :
                        MeanLess(MeanOverAllRows(d), MeanOverAllRows(c))}) <= k - 1
                /\ Cardinality({d \in CropsOfCounty :
                        MeanLess(MeanOverAllRows(c), MeanOverAllRows(d))})
                        <= Cardinality(CropsOfCounty) - k
    IN  MeanOverAllRows(c)

\* the median of the means of all the crops of the county
MedianOfAllMeans ==
    LET n == Cardinality(CropsOfCounty)
        a == MeanOfRank(n \div 2)
        b == MeanOfRank(n \div 2 + 1)
    IN  IF n % 2 = 1 THEN MeanOfRank((n + 1) \div 2)
        ELSE <<a[1] * b[2] + b[1] * a[2], 2 * a[2] * b[2]>>

\* C14: the tier of each recommended crop is "High" exactly when its mean
\* strictly exceeds the median of the means of all crops of the county,
\* and "Medium" otherwise.
C14_TierByMedianOfAllMeans ==
    pc = "insights" =>
        \A i \in 1..Len(result.crop_recommendations) :
            LET rec == result.crop_recommendations[i]
            IN  rec.potential_yield =
                    (IF rec.crop \in CropsOfCounty
                        /\ MeanLess(MedianOfAllMeans, MeanOverAllRows(rec.crop))
                     THEN "High" ELSE "Medium")

\* the county's market-price rows of crop c, in insertion order
PriceRowsOfCrop(c) == SelectSeq(RowsOfCrop(c), LAMBDA r : r.data_type = "market_prices")

\* C15: market_trends has an entry for exactly the crops with a
\* market-price row in the county; its current_price is the value of the
\* most recently inserted price row of the crop and its trend is "stable".
C15_LatestPricePerCrop ==
    (pc = "insights" /\ RowsOfCounty # <<>>) =>
        LET trends == result.market_trends.price_trends
        IN  /\ DOMAIN trends = {c \in CropsOfCounty : PriceRowsOfCrop(c) # <<>>}
            /\ \A c \in DOMAIN trends :
                    /\ trends[c].current_price
                            = PriceRowsOfCrop(c)[Len(PriceRowsOfCrop(c))].value
                    /\ trends[c].trend = "stable"

(***************************************************************************)
(* Properties of predict_crop_yield (SpecYield)                            *)
(***************************************************************************)
\* the batch has column c: some record has the field
BatchHasColumn(c) == \E i \in 1..Len(raw_data.records) : c \in DOMAIN raw_data.records[i]

BatchHasYieldColumns ==
    /\ BatchHasColumn("area_hectares")
    /\ BatchHasColumn("year")
    /\ BatchHasColumn("production_tonnes")

\* the result has the accuracy, the predictions and the two coefficients
IsYieldResult(r) ==
    /\ DOMAIN r = {"model_accuracy", "predictions", "feature_importance"}
    /\ DOMAIN r.feature_importance = {"area_hectares", "year"}

\* C16 as stated: predict_crop_yield returns a result exactly when the batch
\* has the three columns and more than 10 rows, None otherwise, and never
\* an exception.
C16_ResultIffColumnsAndRows ==
    pc = "predicted" =>
        /\ "exception" \notin DOMAIN result
        /\ IF BatchHasYieldColumns /\ Len(raw_data.records) > 10
           THEN IsYieldResult(result) ELSE result = NoneValue

\* C16 amended: predict_crop_yield returns a result exactly when the batch
\* has more than 10 rows and every record has the three fields, None
\* otherwise, and never an exception.
C16_ResultIffCompleteRows ==
    pc = "predicted" =>
        /\ "exception" \notin DOMAIN result
        /\ IF /\ Len(raw_data.records) > 10
              /\ \A i \in 1..Len(raw_data.records) :
                    DOMAIN raw_data.records[i] = {"area_hectares", "year", "production_tonnes"}
           THEN IsYieldResult(result) ELSE result = NoneValue

\* 11 complete records give a result, with the predictions of 3 test rows
C16_Witness ==
    /\ pc = "predicted"
    /\ Len(raw_data.records) = 11
    /\ IsYieldResult(result)
    /\ Len(result.predictions) = 3

(***************************************************************************)
(* Properties of the report (SpecInsight)                                  *)
(***************************************************************************)
\* C17: generate_agricultural_report returns an object with exactly the
\* parts title, type, content and insights; the numbered lines of content
\* are the crop recommendations, numbered from 1 in the order of the
\* insights, and then the productivity tips, numbered from 1 in the order
\* of the insights.
C17_ReportPartsAndOrder ==
    pc = "report" =>
        /\ DOMAIN result = {"title", "type", "content", "insights"}
        /\ LET recs == result.insights.crop_recommendations
               tps  == result.insights.productivity_tips
           IN  SelectSeq(result.content, LAMBDA l : l.line \in {"recommendation", "tip"})
                = [i \in 1..Len(recs) |->
                        [line |-> "recommendation", number |-> i,
                         crop |-> recs[i].crop, reason |-> recs[i].reason]]
                  \o [i \in 1..Len(tps) |-> [line |-> "tip", number |-> i, tip |-> tps[i]]]

(***************************************************************************)
(* Properties of the update of an existing row (Spec)                      *)
(***************************************************************************)
\* the columns an update leaves alone
ColumnsKeptByUpdate ==
    {"data_source", "county", "crop_name", "data_type", "year", "season", "unit",
     "raw_data", "created_at"}

\* C20: an ingestion call keeps every row the table had, with its source,
\* county, crop_name, data_type, year, season, unit, raw_data and created
\* timestamp unchanged, and adds no row whose key the table already had.
C20_UpdateKeepsOtherColumns ==
    [][/\ Len(store') >= Len(store)
       /\ \A i \in 1..Len(store) : \A c \in ColumnsKeptByUpdate :
                store'[i][c] = store[i][c]
       /\ \A j \in (Len(store) + 1)..Len(store') : \A i \in 1..Len(store) :
                KeyOfRow(store'[j]) # KeyOfRow(store[i])]_vars

\* a row inserted by the first call and updated by the second with another
\* value: value and processed_data are the new ones, raw_data the old one
C20_Witness ==
    \E i \in 1..Len(store) :
        /\ store[i].created_at = 1
        /\ store[i].updated_at = 2
        /\ store[i].value # store[i].raw_data.value
        /\ store[i].processed_data.value = store[i].value

(***************************************************************************)
(* Properties of the core as a whole (SpecCore)                            *)
(***************************************************************************)
\* C18: a step that computes the insights or the report (a step that is not
\* an ingestion: the clock of the ingestions stands still) leaves the table
\* and every field of the farmer's profile as they were.
C18_InsightsAndReportChangeNothing ==
    [][(now' = now /\ pc' \in {"insights", "report"}) =>
            (store' = store /\ user' = user)]_vars

\* a report was computed over a table with rows for a farmer of the county
C18_Witness ==
    /\ pc = "report"
    /\ result # NoneValue
    /\ Len(result.insights.crop_recommendations) >= 1
    /\ Len(store) >= 1

\* C19: over any step of ingestion, query, insights or report, every key
\* of a persisted row is still the key of a persisted row.
C19_KeysNeverShrink ==
    [][\A i \in 1..Len(store) : \E j \in 1..Len(store') :
            KeyOfRow(store'[j]) = KeyOfRow(store[i])]_vars

\* after a first ingestion, a second one failed and was rolled back, and a
\* query was answered: the rows are still there
C19_Witness ==
    /\ now = 2
    /\ last_call.raised
    /\ Len(store) >= 1
    /\ pc = "county_data"
    /\ Len(result.data) >= 1

(***************************************************************************)
(* Properties of the cleaning of texts and missing values (SpecImpute)     *)
(***************************************************************************)
\* the list of dicts clean_agricultural_data builds its frame from
BatchOf(raw) == IF IsText(raw) THEN LoadBatch(raw.text) ELSE raw

\* C21: the outlier filter drops no row of a batch of at most one record,
\* so the records returned for such a batch are those its frame keeps under
\* the year and non-negativity checks.
C21_SingleRowSkipsOutlierFilter ==
    (pc = "done" /\ Len(BatchOf(raw_data).records) <= 1) =>
        /\ filtered = normalized
        /\ cleaned = _validate_data(normalized).rows

\* the frame of the batch before any stage
FrameOfBatch(raw) == DataFrame(BatchOf(raw).records, BatchOf(raw).keys)

\* the values of column c of df that are not missing
Present(df, c) == SelectSeq(Column(df, c), LAMBDA v : v # Missing(c))

CountOf(s, P(_)) == Len(SelectSeq(s, P))

\* m is the median of the numbers s: the mean of the lower and the upper
\* middle value
IsMedianOf(m, s) ==
    \E lo \in Range(s), up \in Range(s) :
        /\ 2 * CountOf(s, LAMBDA v : v <= lo) >= Len(s)
        /\ \A x \in Range(s) : 2 * CountOf(s, LAMBDA v : v <= x) >= Len(s) => lo <= x
        /\ 2 * CountOf(s, LAMBDA v : v >= up) >= Len(s)
        /\ \A x \in Range(s) : 2 * CountOf(s, LAMBDA v : v >= x) >= Len(s) => x <= up
        /\ 2 * m = lo + up

\* t is a mode of the texts s: no text occurs more often
IsModeOf(t, s) ==
    /\ t \in Range(s)
    /\ \A u \in Range(s) : CountOf(s, LAMBDA v : v = u) <= CountOf(s, LAMBDA v : v = t)

\* C22: in the frame after _handle_missing_values (read under the renamed
\* labels), a value that was present is unchanged, a missing number is the
\* median of the numbers present in its column of the batch, a missing text
\* is a mode of the texts present in its column of the batch, and a column
\* with no value present is left as it was.
C22_FilledWithMedianAndMode ==
    (pc = "done" /\ ~Raised(CleanBody(raw_data))) =>
        LET df == FrameOfBatch(raw_data)
        IN  /\ Len(normalized.columns) = Len(df.columns)
            /\ Len(normalized.rows) = Len(df.rows)
            /\ \A i \in 1..Len(df.rows), j \in 1..Len(df.columns) :
                    LET c == df.columns[j]
                        before == df.rows[i][c]
                        after == normalized.rows[i][normalized.columns[j]]
                    IN  IF before # Missing(c) THEN after = before
                        ELSE IF Present(df, c) = <<>> THEN after = Missing(c)
                        ELSE IF c \in TextFields THEN IsModeOf(after, Present(df, c))
                        ELSE IsMedianOf(after, Present(df, c))

\* a batch of four records with a missing number beside numbers present and
\* a missing text beside texts present, of which the first is not a mode
C22_Witness ==
    /\ pc = "done"
    /\ ~IsText(raw_data)
    /\ Len(raw_data.records) = 4
    /\ LET df == FrameOfBatch(raw_data)
           t == df.columns[1]
           n == df.columns[2]
       IN  /\ t \in TextFields
           /\ n \notin TextFields
           /\ \E i \in 1..4 : df.rows[i][n] = NaN
           /\ \E i \in 1..4 : df.rows[i][t] = MissingText
           /\ Len(Present(df, n)) >= 2
           /\ Present(df, t) # <<>>
           /\ ~IsModeOf(Present(df, t)[1], Present(df, t))
           /\ \A i \in 1..4 : normalized.rows[i][normalized.columns[1]] # MissingText
           /\ \A i \in 1..4 : normalized.rows[i][normalized.columns[2]] # NaN

\* C23: _standardize_columns gives every column whose label is a key of the
\* table the canonical label of that key, leaves every other label as it is,
\* keeps the values of every column, and leaves no label that is a key of the
\* table, in the frame and in the records returned.
C23_RenamesExactlyTheTable ==
    (pc = "done" /\ ~Raised(CleanBody(raw_data))) =>
        LET df == _handle_missing_values(FrameOfBatch(raw_data))
        IN  /\ Len(normalized.columns) = Len(df.columns)
            /\ Len(normalized.rows) = Len(df.rows)
            /\ \A j \in 1..Len(df.columns) :
                    /\ df.columns[j] \in DOMAIN column_mapping =>
                            normalized.columns[j] = column_mapping[df.columns[j]]
                    /\ df.columns[j] \notin DOMAIN column_mapping =>
                            normalized.columns[j] = df.columns[j]
                    /\ normalized.columns[j] \notin DOMAIN column_mapping
                    /\ \A i \in 1..Len(df.rows) :
                            normalized.rows[i][normalized.columns[j]] = df.rows[i][df.columns[j]]
            /\ \A i \in 1..Len(cleaned) : DOMAIN cleaned[i] \cap DOMAIN column_mapping = {}

\* a batch spelled YEAR/value: one label of the table, in capitals, and one
\* label the table does not have, with records returned
C23_Witness ==
    /\ pc = "done"
    /\ raw_data.keys = <<"YEAR", "value">>
    /\ normalized.columns = <<"year", "value">>
    /\ Len(normalized.rows) >= 2
    /\ Len(cleaned) >= 1
    /\ DOMAIN cleaned[1] = {"year", "value"}

\* C24: when the try block of clean_agricultural_data raises (json.loads on
\* a text that is not JSON), the call returns the empty list, and nothing
\* else of the state changes.
C24_FailureGivesEmptyList ==
    (pc = "done" /\ Raised(CleanBody(raw_data))) =>
        /\ cleaned = <<>>
        /\ store = <<>>
        /\ result = NoResult

\* the call on a text that is not JSON has returned
C24_Witness ==
    /\ pc = "done"
    /\ IsText(raw_data)
    /\ raw_data.text = "[{\"Crop\": \"Maize\", \"value\": 100}"
    /\ ~LoadBatch(raw_data.text).ok
    /\ cleaned = <<>>

(***************************************************************************)
(* Properties of a failing fetch_latest_data (SpecOutage)                  *)
(***************************************************************************)
\* C26: a call of fetch_latest_data that returns success False leaves the
\* table as it was before the call.
C26_FailedFetchChangesNothing ==
    [][(now' = now + 1 /\ last_call'.op = "fetch" /\ last_call'.raised) => store' = store]_vars

(***************************************************************************)
(* Two update-data requests running _save_agricultural_data on the same    *)
(* records at the same time, each in the database session of its request   *)
(***************************************************************************)
Requests == {1, 2}

\* the records of the batches the two requests save: those with a year
RaceRecords == {r \in SaveRecords : Insertable(r)}

\* existing.value = ..., existing.updated_at = ..., existing.processed_data = ...
UpdatedRow(row, record, t) ==
    [row EXCEPT !.value = record.value, !.updated_at = t, !.processed_data = record]

\* a write of a session applied to the table: an added row goes to the end,
\* an update goes to the committed row it read (at) or to the row the
\* session itself added (the at-th after the base rows)
ApplyWrite(rows, base, w) ==
    IF w.kind = "insert" THEN Append(rows, NewRow(w.record, w.source, w.t))
    ELSE LET j == IF w.own THEN base + w.at ELSE w.at
         IN  [rows EXCEPT ![j] = UpdatedRow(rows[j], w.record, w.t)]

RECURSIVE ApplyWrites(_, _, _)
ApplyWrites(rows, base, writes) ==
    IF writes = <<>> THEN rows
    ELSE ApplyWrites(ApplyWrite(rows, base, Head(writes)), base, Tail(writes))

\* what a query of the session sees: the committed rows and its own writes
SessionView(rows, writes) == ApplyWrites(rows, Len(rows), writes)

\* one pass of the loop of _save_agricultural_data in a session: the query
\* for an existing row, then db.session.add or the update of the row found
WriteFor(rows, writes, record, source, t) ==
    LET i == FirstMatch(SessionView(rows, writes), record, source)
    IN  IF i = 0 THEN [kind |-> "insert", record |-> record, source |-> source, t |-> t]
        ELSE [kind |-> "update", record |-> record, source |-> source, t |-> t,
              own |-> i > Len(rows),
              at |-> IF i > Len(rows) THEN i - Len(rows) ELSE i]

\* both requests have called _save_agricultural_data with the same source
\* and records; the table is empty or holds the Maize row
InitRace ==
    /\ \E source \in Sources, n \in 1..MaxBatch, before \in {<<>>, <<MaizeRecord>>} :
        \E records \in [1..n -> RaceRecords] :
            /\ store = _save_agricultural_data(<<>>, before, source, 0, {}).rows
            /\ requests = [p \in Requests |->
                              [pc |-> "loop", source |-> source, records |-> records,
                               idx |-> 1, writes |-> <<>>]]
    /\ now = 0
    /\ last_call = NoCall
    /\ result = NoResult
    /\ pc = "idle"
    /\ raw_data = NoBatch
    /\ normalized = EmptyFrame
    /\ filtered = EmptyFrame
    /\ cleaned = <<>>
    /\ user = NoUser
    /\ tips = <<>>
    /\ accounts = <<>>
    /\ checkouts = <<>>
    /\ reports = <<>>

\* request p runs one pass of the loop
SaveLoop(p) ==
    /\ requests[p].pc = "loop"
    /\ requests[p].idx <= Len(requests[p].records)
    /\ LET r == requests[p]
           w == WriteFor(store, r.writes, r.records[r.idx], r.source, p)
       IN  requests' = [requests EXCEPT ![p].writes = Append(@, w), ![p].idx = @ + 1]
    /\ UNCHANGED <<cleanVars, tipVars, storeVars, result, pc, accounts, checkouts, reports>>

\* request p reaches db.session.commit()
SaveCommit(p) ==
    /\ requests[p].pc = "loop"
    /\ requests[p].idx > Len(requests[p].records)
    /\ store' = SessionView(store, requests[p].writes)
    /\ requests' = [requests EXCEPT ![p].pc = "done", ![p].writes = <<>>]
    /\ UNCHANGED <<cleanVars, tipVars, now, last_call, result, pc, accounts, checkouts, reports>>

NextRace == \E p \in Requests : SaveLoop(p) \/ SaveCommit(p)

SpecRace == InitRace /\ [][NextRace]_vars

\* C25: when two _save_agricultural_data calls for the same records have
\* run interleaved and both have committed, no two rows of the table have
\* the same (source, county, crop_name, data_type, year, season).
C25_OneRowPerKeyWhenInterleaved ==
    (\A p \in Requests : requests[p].pc = "done") =>
        \A i, j \in 1..Len(store) : KeyOfRow(store[i]) = KeyOfRow(store[j]) => i = j

(***************************************************************************)
(* Accounts: registration, the admin toggle, Stripe checkout and webhooks  *)
(* (routes.py, routes_admin.py, routes_payment.py)                         *)
(***************************************************************************)
\* users registered, checkout sessions created in one behaviour
MaxUsers == 2
MaxCheckouts == 1

\* the plan_type of a create-checkout-session request: a key of
\* price_configs, and one that is not
PlanTypes == {"premium", "gold"}
price_configs == {"basic", "premium", "enterprise"}

\* the User row register() creates; subscription_status and
\* subscription_plan take the column defaults
NewUser == [is_admin |-> FALSE, subscription_status |-> "none", subscription_plan |-> "none"]

\* a row whose is_admin was set in the database by the operator
SeededAdmin == [NewUser EXCEPT !.is_admin = TRUE]

\* a request: the user of its login session (0: none), and what it names
\* when it is carried out (the session or the user it acts on)
Request(op, actor) ==
    [op |-> op, actor |-> actor, session |-> 0, target |-> 0, signed |-> FALSE,
     type |-> "", customer |-> 0, status |-> 200]

\* @login_required: current_user.is_authenticated
login_required(accts, actor) == actor \in 1..Len(accts)

\* as admin_required, with the is_admin test left out
AdminRequiredLoginOnly(accts, actor) == actor \in 1..Len(accts)

\* @admin_required under @login_required
admin_required(accts, actor) == actor \in 1..Len(accts) /\ accts[actor].is_admin

InitAccounts ==
    /\ accounts \in {<<>>, <<SeededAdmin>>}
    /\ checkouts = <<>>
    /\ reports = <<>>
    /\ requests = <<>>
    /\ last_call = Request("none", 0)
    /\ store = <<>>
    /\ now = 0
    /\ result = NoResult
    /\ pc = "idle"
    /\ raw_data = NoBatch
    /\ normalized = EmptyFrame
    /\ filtered = EmptyFrame
    /\ cleaned = <<>>
    /\ user = NoUser
    /\ tips = <<>>

accountFrame == <<cleanVars, tipVars, store, now, result, pc, reports, requests>>

\* POST /register with a new username and email
Register ==
    /\ Len(accounts) < MaxUsers
    /\ accounts' = Append(accounts, NewUser)
    /\ last_call' = Request("register", 0)
    /\ UNCHANGED <<checkouts, accountFrame>>

\* POST /admin/api/user/<user_id>/toggle-admin; a user_id without a row is
\* the 404 of get_or_404, turned into 500 by the except branch
ToggleUserAdmin ==
    \E actor \in 0..Len(accounts), user_id \in 1..MaxUsers :
        LET call == Request("toggle_user_admin", actor)
        IN  /\ IF ~admin_required(accounts, actor)
               THEN /\ accounts' = accounts
                    /\ last_call' = [call EXCEPT !.status = 302]
               ELSE IF user_id > Len(accounts)
               THEN /\ accounts' = accounts
                    /\ last_call' = [call EXCEPT !.status = 500]
               ELSE /\ accounts' = [accounts EXCEPT ![user_id].is_admin = ~@]
                    /\ last_call' = [call EXCEPT !.target = user_id]
            /\ UNCHANGED <<checkouts, accountFrame>>

\* POST /create-checkout-session: Stripe creates a session that is open
\* and unpaid, with client_reference_id the id of current_user
CreateCheckoutSession ==
    \E actor \in 0..Len(accounts), plan_type \in PlanTypes :
        LET call == Request("create_checkout_session", actor)
        IN  /\ IF ~login_required(accounts, actor)
               THEN /\ checkouts' = checkouts
                    /\ last_call' = [call EXCEPT !.status = 302]
               ELSE IF plan_type \notin price_configs
               THEN /\ checkouts' = checkouts
                    /\ last_call' = [call EXCEPT !.status = 400]
               ELSE /\ Len(checkouts) < MaxCheckouts
                    /\ checkouts' = Append(checkouts,
                            [client_reference_id |-> actor, plan_type |-> plan_type,
                             status |-> "open", payment_status |-> "unpaid"])
                    /\ last_call' = call
            /\ UNCHANGED <<accounts, accountFrame>>

\* at Stripe: the customer completes the checkout of an open session, with
\* a payment that has succeeded or with one that is still pending
CompleteCheckout ==
    \E s \in 1..Len(checkouts), payment_status \in {"paid", "unpaid"} :
        /\ checkouts[s].status = "open"
        /\ checkouts' = [checkouts EXCEPT ![s].status = "complete",
                                          ![s].payment_status = payment_status]
        /\ last_call' = Request("stripe_checkout", 0)
        /\ UNCHANGED <<accounts, accountFrame>>

\* GET /subscription/success?session_id=...: 0 is no session_id, an id
\* Stripe does not know makes Session.retrieve raise
SubscriptionSuccess ==
    \E actor \in 0..Len(accounts), session_id \in 0..MaxCheckouts :
        LET call == Request("subscription_success", actor)
        IN  /\ IF ~login_required(accounts, actor)
               THEN /\ accounts' = accounts
                    /\ last_call' = [call EXCEPT !.status = 302]
               ELSE IF /\ session_id \in 1..Len(checkouts)
                       /\ checkouts[session_id].payment_status = "paid"
               THEN /\ accounts' = [accounts EXCEPT
                            ![actor].subscription_status = "active",
                            ![actor].subscription_plan = checkouts[session_id].plan_type]
                    /\ last_call' = [call EXCEPT !.session = session_id]
               ELSE /\ accounts' = accounts
                    /\ last_call' = call
            /\ UNCHANGED <<checkouts, accountFrame>>

\* the events of the three handled types Stripe has to send: the completion
\* of a complete session, and the invoice and the deletion of the
\* subscription of a paid one
StripeEvents ==
    {[type |-> "checkout.session.completed", session |-> s] :
        s \in {k \in 1..Len(checkouts) : checkouts[k].status = "complete"}}
    \cup {[type |-> t, session |-> s] :
            t \in {"invoice.payment_succeeded", "customer.subscription.deleted"},
            s \in {k \in 1..Len(checkouts) : checkouts[k].payment_status = "paid"}}

\* handle_checkout_session_completed
handle_checkout_session_completed(accts, session) ==
    IF session.client_reference_id \in 1..Len(accts)
    THEN [accts EXCEPT ![session.client_reference_id].subscription_status = "active",
                       ![session.client_reference_id].subscription_plan = session.plan_type]
    ELSE accts

\* handle_invoice_payment_succeeded and handle_subscription_deleted: a log line
handle_invoice_payment_succeeded(accts, customer) == accts
handle_subscription_deleted(accts, customer) == accts

\* POST /webhook/stripe: an event Stripe signed, or a payload whose
\* signature construct_event rejects
StripeWebhook ==
    \/ \E event \in StripeEvents :
            LET session == checkouts[event.session]
                call == [Request("stripe_webhook", 0) EXCEPT
                            !.signed = TRUE, !.type = event.type,
                            !.session = event.session,
                            !.customer = session.client_reference_id]
            IN  /\ accounts' =
                        CASE event.type = "checkout.session.completed" ->
                                handle_checkout_session_completed(accounts, session)
                          [] event.type = "invoice.payment_succeeded" ->
                                handle_invoice_payment_succeeded(accounts, session.client_reference_id)
                          [] event.type = "customer.subscription.deleted" ->
                                handle_subscription_deleted(accounts, session.client_reference_id)
                /\ last_call' = call
                /\ UNCHANGED <<checkouts, accountFrame>>
    \/ \E type \in {"checkout.session.completed", "customer.subscription.deleted"} :
            /\ accounts' = accounts
            /\ last_call' = [Request("stripe_webhook", 0) EXCEPT
                                !.type = type, !.status = 400]
            /\ UNCHANGED <<checkouts, accountFrame>>

NextAccounts ==
    \/ Register
    \/ ToggleUserAdmin
    \/ CreateCheckoutSession
    \/ CompleteCheckout
    \/ SubscriptionSuccess
    \/ StripeWebhook

SpecAccounts == InitAccounts /\ [][NextAccounts]_vars

(***************************************************************************)
(* Properties of the accounts (SpecAccounts)                               *)
(***************************************************************************)
\* C27: a user's subscription_status becomes 'active' only in a request
\* that names a checkout session which is paid and whose
\* client_reference_id is that user's id.
C27_ActiveOnlyByOwnPaidSession ==
    [][\A u \in 1..Len(accounts) :
            (accounts[u].subscription_status # "active"
                /\ accounts'[u].subscription_status = "active") =>
            /\ last_call'.session \in 1..Len(checkouts)
            /\ checkouts[last_call'.session].payment_status = "paid"
            /\ checkouts[last_call'.session].client_reference_id = u]_vars

\* C28: after a verified customer.subscription.deleted webhook has been
\* handled, the subscription_status of the user of that subscription is not
\* 'active'.
C28_DeletedSubscriptionNotActive ==
    (/\ last_call.op = "stripe_webhook"
     /\ last_call.signed
     /\ last_call.type = "customer.subscription.deleted") =>
        accounts[last_call.customer].subscription_status # "active"

\* the users with is_admin set
Admins(accts) == {u \in 1..Len(accts) : accts[u].is_admin}

\* C29: is_admin of a user changes only in a toggle_user_admin request for
\* that user made by an authenticated user whose is_admin is true at that
\* moment; a user is created with is_admin false; and a step from a state
\* without admins leads to a state without admins.
C29_AdminOnlyByAdminToggle ==
    [][/\ \A u \in 1..Len(accounts) :
            accounts'[u].is_admin # accounts[u].is_admin =>
                /\ last_call'.op = "toggle_user_admin"
                /\ last_call'.target = u
                /\ last_call'.actor \in Admins(accounts)
       /\ \A u \in (Len(accounts) + 1)..Len(accounts') : ~accounts'[u].is_admin
       /\ Admins(accounts) = {} => Admins(accounts') = {}]_vars

\* an admin has granted is_admin to a registered user, and a request of a
\* user who is not admin to toggle has just been turned away
C29_Witness ==
    /\ Len(accounts) = 2
    /\ accounts[1].is_admin
    /\ accounts[2].is_admin
    /\ last_call.op = "toggle_user_admin"
    /\ last_call.actor = 0
    /\ last_call.status = 302

(***************************************************************************)
(* The /reports route (routes.py), its requests running one at a time or   *)
(* two at once                                                             *)
(***************************************************************************)
\* /reports requests in one behaviour
MaxVisits == 4

\* the users registered: a farmer whose crop list is JSON and one whose
\* crop list is not (generate_agricultural_report returns None for it)
Farmers ==
    <<AnalysisProfile @@ NewUser,
      [AnalysisProfile EXCEPT !.primary_crops = "Maize, Beans"] @@ NewUser>>

\* Report(title=..., report_type=..., content=..., insights=..., user_id=...)
NewReport(report_data, user_id) ==
    [title |-> report_data.title, report_type |-> report_data.type,
     content |-> report_data.content, insights |-> report_data.insights,
     user_id |-> user_id]

\* Report.query.filter_by(user_id=...).all()
ReportsOf(rows, user_id) == SelectSeq(rows, LAMBDA r : r.user_id = user_id)

NoRequest == [pc |-> "idle", actor |-> 0, user_reports |-> <<>>]

InitReports ==
    /\ accounts = Farmers
    /\ reports = <<>>
    /\ requests = [p \in Requests |-> NoRequest]
    /\ checkouts = <<>>
    /\ store \in {<<>>, _save_agricultural_data(<<>>, <<MaizeRecord>>, "KilimoSTAT", 1, {}).rows}
    /\ now = 0
    /\ last_call = NoCall
    /\ result = NoResult
    /\ pc = "idle"
    /\ raw_data = NoBatch
    /\ normalized = EmptyFrame
    /\ filtered = EmptyFrame
    /\ cleaned = <<>>
    /\ user = NoUser
    /\ tips = <<>>

reportFrame == <<cleanVars, tipVars, store, last_call, result, pc, accounts, checkouts>>

\* a /reports request arrives: @login_required sends a request without
\* login away, otherwise the user's reports are read
ReportsQuery(p) ==
    /\ requests[p].pc = "idle"
    /\ now < MaxVisits
    /\ now' = now + 1
    /\ \E actor \in 0..Len(accounts) :
            requests' = [requests EXCEPT ![p] =
                IF login_required(accounts, actor)
                THEN [pc |-> "queried", actor |-> actor,
                      user_reports |-> ReportsOf(reports, actor)]
                ELSE NoRequest]
    /\ UNCHANGED <<reports, reportFrame>>

\* as CreatesReport, with the report created at every request
CreatesReportAlways(user_reports, report_data) == report_data # NoneValue

\* if not user_reports: ...; if report_data: ...
CreatesReport(user_reports, report_data) ==
    user_reports = <<>> /\ report_data # NoneValue

\* the rest of the request: the report is generated, added and committed
\* when the user had none, and the page is rendered
ReportsRender(p) ==
    /\ requests[p].pc = "queried"
    /\ LET r == requests[p]
           report_data == generate_agricultural_report(store, accounts[r.actor])
       IN  reports' = IF CreatesReport(r.user_reports, report_data)
                      THEN Append(reports, NewReport(report_data, r.actor))
                      ELSE reports
    /\ requests' = [requests EXCEPT ![p] = NoRequest]
    /\ UNCHANGED <<now, reportFrame>>

NextReports == \E p \in Requests : ReportsQuery(p) \/ ReportsRender(p)

SpecReports == InitReports /\ [][NextReports]_vars

\* C30: every user has at most one row in the Report table, also when two
\* /reports requests of the user interleave, and a report is added only for
\* a user without one for whom generate_agricultural_report returned a
\* report.
C30_AtMostOneReportPerUser ==
    /\ \A u \in 1..Len(accounts) : Len(ReportsOf(reports, u)) <= 1
    /\ \A i \in 1..Len(reports) :
            generate_agricultural_report(store, accounts[reports[i].user_id]) # NoneValue


=============================================================================
